---- MODULE Spec2Model ----
(***************************************************************************)
(* The three training scripts of lab/ (train.py, train-gpu.py,             *)
(* train-gpu-yolo12.py): main() resolves a dataset directory (local or     *)
(* fetched from the Roboflow registry) and then, for each entry of         *)
(* MODEL_SIZES, loads a pretrained model, trains it and exports it.        *)
(*                                                                         *)
(* The calls into the collaborating libraries (the Roboflow fetch chain,   *)
(* YOLO(...), model.train, model.export) are two steps each: the call and  *)
(* its completion, which either returns or raises an Exception.  Every     *)
(* call and completion is appended to log; every print is appended to out. *)
(* A path is the sequence of its components.                               *)
(***************************************************************************)
EXTENDS Integers, Sequences, FiniteSets

VARIABLES
    script,            \* which of the three scripts runs
    cwd,               \* os.getcwd()
    env,               \* os.environ: the value of ROBOFLOW_API_KEY, or Unset
    descriptorExists,  \* what os.path.exists(data_yaml_path) answers
    pc,                \* position of main()
    dataset_location,  \* local variable of main(), Unbound until assigned
    idx,               \* position of the for loop in MODEL_SIZES
    current_batch,     \* local variable of main() (GPU scripts), Unbound until assigned
    log,               \* calls into the libraries and their completions, in order
    out,               \* printed messages, in order
    uncaught           \* the exception that left main(), NoError if none

vars == <<script, cwd, env, descriptorExists, pc, dataset_location, idx,
          current_batch, log, out, uncaught>>

-----------------------------------------------------------------------------
(* Bounds of the environment *)

\* number of distinct error messages a library call may raise with
MaxErrors == 2
\* number of distinct directories the registry download may report
MaxRemoteDirs == 2

Scripts == {"train", "train-gpu", "train-gpu-yolo12"}

Unset == "<unset>"
Unbound == "<unbound>"
NoError == [cls |-> "none"]

\* exceptions raised by the libraries: instances of Exception with a message
Errors == [cls : {"Exception"}, msg : 1..MaxErrors]

WorkingDirs == {<<"content">>, <<"home", "lab">>}
RemoteDirs == {<<"content", "combined-vegetables-fruits", d>> : d \in 1..MaxRemoteDirs}
EnvValues == {Unset, "", "YOUR_API_KEY_HERE", "user-key"}

-----------------------------------------------------------------------------
(* Module-level configuration of the scripts *)

DEFAULT_API_KEY == "wrBZSENL1YtFWZHbvACQ"
PLACEHOLDER_KEY == "YOUR_API_KEY_HERE"
PROJECT_WORKSPACE == "yolo-jpkho"
PROJECT_NAME == "combined-vegetables-fruits"
VERSION_NUMBER == 1
MODEL_SIZES == <<"s", "m", "l">>

\* os.environ.get("ROBOFLOW_API_KEY", default)
API_KEY == IF env = Unset THEN DEFAULT_API_KEY ELSE env

\* BATCH_CONFIG of a script; train.py defines none
BATCH_CONFIG(sc) ==
    CASE sc = "train-gpu"        -> [s |-> 128, m |-> 48, l |-> 32]
      [] sc = "train-gpu-yolo12" -> [s |-> 32, m |-> 16, l |-> 16]
      [] OTHER                   -> << >>

\* mutation: the lookup always answers the default
DictGet_AlwaysDefault(d, key, default) == default

\* dict.get(key, default)
DictGet(d, key, default) == IF key \in DOMAIN d THEN d[key] ELSE default

\* the batch= argument of model.train for a size
BatchArg(sc, size) ==
    IF sc = "train" THEN 16 ELSE DictGet(BATCH_CONFIG(sc), size, 16)

\* f"yolo11{size}" / f"yolo12{size}"
Family(sc) == IF sc = "train-gpu-yolo12" THEN "yolo12" ELSE "yolo11"

\* str.upper() on the size tokens
Upper(size) ==
    CASE size = "s" -> "S" [] size = "m" -> "M" [] size = "l" -> "L" [] OTHER -> size

\* os.path.join(a, name) for a relative name
PathJoin(p, name) == Append(p, name)

local_dataset_path == PathJoin(cwd, "dataset")
data_yaml_path == PathJoin(local_dataset_path, "data.yaml")

\* the keyword arguments of model.train (augmentation parameters left out)
TrainRequest(sc, loc, size, batch) ==
    [data    |-> Append(loc, "data.yaml"),
     epochs  |-> IF sc = "train-gpu" THEN 100 ELSE 20,
     imgsz   |-> 640,
     name    |-> <<Family(sc), size, "_fruit">>,
     device  |-> IF sc = "train" THEN "mps" ELSE "0",
     workers |-> CASE sc = "train" -> 8 [] sc = "train-gpu" -> 16 [] OTHER -> 2,
     batch   |-> batch,
     cache   |-> (sc = "train-gpu"),
     amp     |-> TRUE]

\* the loop variable
size == MODEL_SIZES[idx]

-----------------------------------------------------------------------------
Init ==
    /\ script \in Scripts
    /\ cwd \in WorkingDirs
    /\ env \in EnvValues
    /\ descriptorExists \in BOOLEAN
    /\ pc = "start"
    /\ dataset_location = Unbound
    /\ idx = 1
    /\ current_batch = Unbound
    /\ log = << >>
    /\ out = << >>
    /\ uncaught = NoError

\* mutation: the local dataset is ignored and the registry is asked anyway
FoundLocal_StillFetches ==
    /\ pc = "start"
    /\ descriptorExists
    /\ out' = Append(out, [kind |-> "starting", sizes |-> MODEL_SIZES])
    /\ log' = Append(log, [op |-> "fetch", ev |-> "call", api_key |-> API_KEY,
                           ref |-> <<PROJECT_WORKSPACE, PROJECT_NAME, VERSION_NUMBER>>,
                           format |-> "yolov8"])
    /\ pc' = "fetching"
    /\ UNCHANGED <<script, cwd, env, descriptorExists, dataset_location, idx,
                   current_batch, uncaught>>

\* the local dataset is there: use it
FoundLocal ==
    /\ pc = "start"
    /\ descriptorExists
    /\ dataset_location' = local_dataset_path
    /\ out' = out \o <<[kind |-> "starting", sizes |-> MODEL_SIZES],
                       [kind |-> "found_local", loc |-> local_dataset_path]>>
    /\ pc' = "loop"
    /\ UNCHANGED <<script, cwd, env, descriptorExists, idx, current_batch, log, uncaught>>

\* mutation: the missing-key branch forgets its return and goes on to the fetch
NoApiKey_FallsThrough ==
    /\ pc = "start"
    /\ ~descriptorExists
    /\ (API_KEY = "" \/ API_KEY = PLACEHOLDER_KEY)
    /\ out' = out \o <<[kind |-> "starting", sizes |-> MODEL_SIZES],
                       [kind |-> "local_not_found"],
                       [kind |-> "no_api_key"]>>
    /\ log' = Append(log, [op |-> "fetch", ev |-> "call", api_key |-> API_KEY,
                           ref |-> <<PROJECT_WORKSPACE, PROJECT_NAME, VERSION_NUMBER>>,
                           format |-> "yolov8"])
    /\ pc' = "fetching"
    /\ UNCHANGED <<script, cwd, env, descriptorExists, dataset_location, idx,
                   current_batch, uncaught>>

\* no local dataset and no usable API key: report and return
NoApiKey ==
    /\ pc = "start"
    /\ ~descriptorExists
    /\ (API_KEY = "" \/ API_KEY = PLACEHOLDER_KEY)
    /\ out' = out \o <<[kind |-> "starting", sizes |-> MODEL_SIZES],
                       [kind |-> "local_not_found"],
                       [kind |-> "no_api_key"]>>
    /\ pc' = "done"
    /\ UNCHANGED <<script, cwd, env, descriptorExists, dataset_location, idx,
                   current_batch, log, uncaught>>

\* no local dataset, usable key: enter the Roboflow fetch chain
FetchCall ==
    /\ pc = "start"
    /\ ~descriptorExists
    /\ ~(API_KEY = "" \/ API_KEY = PLACEHOLDER_KEY)
    /\ out' = out \o <<[kind |-> "starting", sizes |-> MODEL_SIZES],
                       [kind |-> "local_not_found"]>>
    /\ log' = Append(log, [op |-> "fetch", ev |-> "call", api_key |-> API_KEY,
                           ref |-> <<PROJECT_WORKSPACE, PROJECT_NAME, VERSION_NUMBER>>,
                           format |-> "yolov8"])
    /\ pc' = "fetching"
    /\ UNCHANGED <<script, cwd, env, descriptorExists, dataset_location, idx,
                   current_batch, uncaught>>

\* the download returns a dataset whose location is loc
FetchReturns(loc) ==
    /\ pc = "fetching"
    /\ log' = Append(log, [op |-> "fetch", ev |-> "return", loc |-> loc])
    /\ dataset_location' = loc
    /\ out' = Append(out, [kind |-> "downloaded", loc |-> loc])
    /\ pc' = "loop"
    /\ UNCHANGED <<script, cwd, env, descriptorExists, idx, current_batch, uncaught>>

\* mutation: the fetch chain is outside any try block
FetchRaises_Propagates(e) ==
    /\ pc = "fetching"
    /\ log' = Append(log, [op |-> "fetch", ev |-> "raise", err |-> e])
    /\ uncaught' = e
    /\ pc' = "crashed"
    /\ UNCHANGED <<script, cwd, env, descriptorExists, dataset_location, idx,
                   current_batch, out>>

\* mutation: the except branch of the fetch tries the download again
FetchRaises_Retries(e) ==
    /\ pc = "fetching"
    /\ log' = log \o <<[op |-> "fetch", ev |-> "raise", err |-> e],
                       [op |-> "fetch", ev |-> "call", api_key |-> API_KEY,
                        ref |-> <<PROJECT_WORKSPACE, PROJECT_NAME, VERSION_NUMBER>>,
                        format |-> "yolov8"]>>
    /\ out' = Append(out, [kind |-> "download_error", msg |-> e.msg])
    /\ UNCHANGED <<script, cwd, env, descriptorExists, pc, dataset_location, idx,
                   current_batch, uncaught>>

\* the fetch chain raises e: except Exception prints it and returns
FetchRaises(e) ==
    /\ pc = "fetching"
    /\ log' = Append(log, [op |-> "fetch", ev |-> "raise", err |-> e])
    /\ out' = Append(out, [kind |-> "download_error", msg |-> e.msg])
    /\ pc' = "done"
    /\ UNCHANGED <<script, cwd, env, descriptorExists, dataset_location, idx,
                   current_batch, uncaught>>

\* next iteration of the for loop: print the header and call YOLO(...)
LoadCall ==
    /\ pc = "loop"
    /\ idx <= Len(MODEL_SIZES)
    /\ out' = out \o <<[kind |-> "processing", size |-> Upper(size)],
                       [kind |-> "training", size |-> size]>>
    /\ log' = Append(log, [op |-> "load", ev |-> "call", size |-> size,
                           weights |-> <<Family(script), size, ".pt">>])
    /\ pc' = "loading"
    /\ UNCHANGED <<script, cwd, env, descriptorExists, dataset_location, idx,
                   current_batch, uncaught>>

\* YOLO(...) raises: nothing catches it
LoadRaises(e) ==
    /\ pc = "loading"
    /\ log' = Append(log, [op |-> "load", ev |-> "raise", size |-> size, err |-> e])
    /\ uncaught' = e
    /\ pc' = "crashed"
    /\ UNCHANGED <<script, cwd, env, descriptorExists, dataset_location, idx,
                   current_batch, out>>

\* YOLO(...) returns: pick the batch size and call model.train
TrainCall ==
    /\ pc = "loading"
    /\ current_batch' = IF script = "train" THEN current_batch
                        ELSE BatchArg(script, size)
    /\ out' = IF script = "train" THEN out
              ELSE Append(out, [kind |-> "batch", batch |-> BatchArg(script, size)])
    /\ log' = log \o <<[op |-> "load", ev |-> "return", size |-> size],
                       [op |-> "train", ev |-> "call", size |-> size,
                        req |-> TrainRequest(script, dataset_location, size,
                                             BatchArg(script, size))]>>
    /\ pc' = "training"
    /\ UNCHANGED <<script, cwd, env, descriptorExists, dataset_location, idx, uncaught>>

\* mutation: model.train sits in a try block like model.export
TrainRaises_Caught(e) ==
    /\ pc = "training"
    /\ log' = Append(log, [op |-> "train", ev |-> "raise", size |-> MODEL_SIZES[idx],
                           err |-> e])
    /\ out' = Append(out, [kind |-> "training_failed", size |-> MODEL_SIZES[idx],
                           msg |-> e.msg])
    /\ idx' = idx + 1
    /\ pc' = "loop"
    /\ UNCHANGED <<script, cwd, env, descriptorExists, dataset_location,
                   current_batch, uncaught>>

\* model.train raises: nothing catches it
TrainRaises(e) ==
    /\ pc = "training"
    /\ log' = Append(log, [op |-> "train", ev |-> "raise", size |-> size, err |-> e])
    /\ uncaught' = e
    /\ pc' = "crashed"
    /\ UNCHANGED <<script, cwd, env, descriptorExists, dataset_location, idx,
                   current_batch, out>>

\* model.train returns: call model.export
ExportCall ==
    /\ pc = "training"
    /\ out' = out \o <<[kind |-> "training_complete", size |-> size],
                       [kind |-> "exporting", size |-> size]>>
    /\ log' = log \o <<[op |-> "train", ev |-> "return", size |-> size],
                       [op |-> "export", ev |-> "call", size |-> size,
                        format |-> "coreml", nms |-> TRUE]>>
    /\ pc' = "exporting"
    /\ UNCHANGED <<script, cwd, env, descriptorExists, dataset_location, idx,
                   current_batch, uncaught>>

\* mutation: the loop steps over the size after a successful export
ExportReturns_SkipsNext ==
    /\ pc = "exporting"
    /\ log' = Append(log, [op |-> "export", ev |-> "return", size |-> MODEL_SIZES[idx]])
    /\ out' = Append(out, [kind |-> "export_complete", size |-> MODEL_SIZES[idx]])
    /\ idx' = idx + 2
    /\ pc' = "loop"
    /\ UNCHANGED <<script, cwd, env, descriptorExists, dataset_location,
                   current_batch, uncaught>>

\* model.export returns
ExportReturns ==
    /\ pc = "exporting"
    /\ log' = Append(log, [op |-> "export", ev |-> "return", size |-> size])
    /\ out' = Append(out, [kind |-> "export_complete", size |-> size,
                           folder |-> <<Family(script), size, "_fruit">>])
    /\ idx' = idx + 1
    /\ pc' = "loop"
    /\ UNCHANGED <<script, cwd, env, descriptorExists, dataset_location,
                   current_batch, uncaught>>

\* mutation: model.export is outside any try block
ExportRaises_Propagates(e) ==
    /\ pc = "exporting"
    /\ log' = Append(log, [op |-> "export", ev |-> "raise", size |-> MODEL_SIZES[idx],
                           err |-> e])
    /\ uncaught' = e
    /\ pc' = "crashed"
    /\ UNCHANGED <<script, cwd, env, descriptorExists, dataset_location, idx,
                   current_batch, out>>

\* mutation: the except branch of the export prints nothing
ExportRaises_Silent(e) ==
    /\ pc = "exporting"
    /\ log' = Append(log, [op |-> "export", ev |-> "raise", size |-> MODEL_SIZES[idx],
                           err |-> e])
    /\ idx' = idx + 1
    /\ pc' = "loop"
    /\ UNCHANGED <<script, cwd, env, descriptorExists, dataset_location,
                   current_batch, out, uncaught>>

\* model.export raises e: except Exception prints it, the loop goes on
ExportRaises(e) ==
    /\ pc = "exporting"
    /\ log' = Append(log, [op |-> "export", ev |-> "raise", size |-> size, err |-> e])
    /\ out' = Append(out, [kind |-> "export_failed", size |-> size, msg |-> e.msg])
    /\ idx' = idx + 1
    /\ pc' = "loop"
    /\ UNCHANGED <<script, cwd, env, descriptorExists, dataset_location,
                   current_batch, uncaught>>

\* mutation: the final message is printed only when no export failed
Finish_OnlyWithoutFailures ==
    /\ pc = "loop"
    /\ idx > Len(MODEL_SIZES)
    /\ out' = IF \E i \in 1..Len(out) : out[i].kind = "export_failed"
              THEN out
              ELSE Append(out, [kind |-> "all_processed"])
    /\ pc' = "done"
    /\ UNCHANGED <<script, cwd, env, descriptorExists, dataset_location, idx,
                   current_batch, log, uncaught>>

\* the for loop is exhausted: print the final message and return
Finish ==
    /\ pc = "loop"
    /\ idx > Len(MODEL_SIZES)
    /\ out' = Append(out, [kind |-> "all_processed"])
    /\ pc' = "done"
    /\ UNCHANGED <<script, cwd, env, descriptorExists, dataset_location, idx,
                   current_batch, log, uncaught>>

Next ==
    \/ FoundLocal
    \/ NoApiKey
    \/ FetchCall
    \/ \E loc \in RemoteDirs : FetchReturns(loc)
    \/ \E e \in Errors : FetchRaises(e)
    \/ LoadCall
    \/ \E e \in Errors : LoadRaises(e)
    \/ TrainCall
    \/ \E e \in Errors : TrainRaises(e)
    \/ ExportCall
    \/ ExportReturns
    \/ \E e \in Errors : ExportRaises(e)
    \/ Finish

Spec == Init /\ [][Next]_vars

-----------------------------------------------------------------------------
(* Vocabulary of the properties *)

\* positions of the log holding event ev of operation op
At(op, ev) == {i \in 1..Len(log) : log[i].op = op /\ log[i].ev = ev}
\* the same, for size v
AtSize(op, ev, v) == {i \in At(op, ev) : log[i].size = v}
\* positions of the log where a library call was entered
Calls == {i \in 1..Len(log) : log[i].ev = "call"}
\* the run is over: main() returned, or an exception left it
Ended == pc \in {"done", "crashed"}
\* the dataset resolved
Resolved == dataset_location # Unbound
\* the per-variant reports: "Export complete" and "Export failed" lines, in order
IsOutcome(m) == m.kind \in {"export_complete", "export_failed"}
Outcomes == SelectSeq(out, IsOutcome)
OutcomeSizes == [i \in 1..Len(Outcomes) |-> Outcomes[i].size]
\* the sizes model.train was called for, in call order
IsTrainCall(ev) == ev.op = "train" /\ ev.ev = "call"
TrainCalls == SelectSeq(log, IsTrainCall)
TrainedSizes == [i \in 1..Len(TrainCalls) |-> TrainCalls[i].size]
Prefix(n) == SubSeq(MODEL_SIZES, 1, n)
IsPrefix(q) == Len(q) <= Len(MODEL_SIZES) /\ q = Prefix(Len(q))
Emitted(kind) == \E i \in 1..Len(out) : out[i].kind = kind
NSizes == Len(MODEL_SIZES)

-----------------------------------------------------------------------------
(* C1: when the local descriptor exists at the existence check, the        *)
(* registry fetch is never called, the dataset location is the local       *)
(* dataset directory <cwd>/dataset, and training reads its data.yaml.      *)
C1_LocalDatasetNoFetch ==
    descriptorExists =>
        /\ At("fetch", "call") = {}
        /\ pc # "fetching"
        /\ pc # "start" => dataset_location = cwd \o <<"dataset">>
        /\ \A i \in At("train", "call") :
               log[i].req.data = cwd \o <<"dataset", "data.yaml">>

C1_Witness ==
    /\ descriptorExists
    /\ pc = "done"
    /\ Len(TrainCalls) = NSizes
    /\ ~Emitted("export_failed")

(* C2: with no local descriptor and a credential that is empty or the      *)
(* placeholder "YOUR_API_KEY_HERE", resolution fails (the missing-key      *)
(* report is printed, no dataset location is bound, main returns), and no  *)
(* fetch, train or export call is ever made.                               *)
C2_NoCredentialFailsClosed ==
    (~descriptorExists /\ env \in {"", "YOUR_API_KEY_HERE"}) =>
        /\ log = << >>
        /\ ~Resolved
        /\ uncaught = NoError
        /\ pc \in {"start", "done"}
        /\ pc = "done" => /\ out[Len(out)] = [kind |-> "no_api_key"]
                          /\ ~Emitted("all_processed")

C2_Witness ==
    /\ ~descriptorExists
    /\ env = "YOUR_API_KEY_HERE"
    /\ pc = "done"
    /\ Emitted("no_api_key")

(* C3: when the fetch raises, resolution fails with a report carrying the  *)
(* raised error's message, main returns without the error leaving it, and  *)
(* no model is loaded, trained or exported.                                *)
C3_FetchErrorFailsClosed ==
    \A i \in At("fetch", "raise") :
        /\ ~descriptorExists
        /\ i = Len(log)
        /\ pc = "done"
        /\ uncaught = NoError
        /\ ~Resolved
        /\ out[Len(out)] = [kind |-> "download_error", msg |-> log[i].err.msg]
        /\ \A j \in 1..Len(log) : log[j].op = "fetch"
        /\ ~Emitted("all_processed")

C3_Witness ==
    /\ pc = "done"
    /\ At("fetch", "raise") # {}
    /\ log[Len(log)].err.msg = MaxErrors
    /\ env = Unset

(* C4: the batch size of every train request is the script's BATCH_CONFIG  *)
(* entry for the variant when it has one, and 16 when it has none (as for  *)
(* every variant of the script without a mapping).                         *)
C4_BatchSize ==
    \A i \in At("train", "call") :
        LET v == log[i].size
            batch == log[i].req.batch
        IN  /\ (script = "train-gpu" /\ v = "s") => batch = 128
            /\ (script = "train-gpu" /\ v = "m") => batch = 48
            /\ (script = "train-gpu" /\ v = "l") => batch = 32
            /\ (script = "train-gpu-yolo12" /\ v = "s") => batch = 32
            /\ (script = "train-gpu-yolo12" /\ v = "m") => batch = 16
            /\ (script = "train-gpu-yolo12" /\ v = "l") => batch = 16
            /\ v \in DOMAIN BATCH_CONFIG(script) => batch = BATCH_CONFIG(script)[v]
            /\ v \notin DOMAIN BATCH_CONFIG(script) => batch = 16

C4_Witness ==
    /\ script = "train-gpu"
    /\ Len(TrainCalls) = NSizes
    /\ TrainCalls[2].req.batch = 48
    /\ pc = "training"

(* C5: the variants train is called for are a prefix of MODEL_SIZES in     *)
(* declaration order; a call into the libraries is followed directly by    *)
(* its own completion; export of a variant is called only after its train  *)
(* returned, and train of a variant only after the export of the variant   *)
(* before it returned or raised.                                           *)
C5_SequentialInOrder ==
    /\ IsPrefix(TrainedSizes)
    /\ \A i \in Calls : i < Len(log) =>
           /\ log[i + 1].op = log[i].op
           /\ log[i + 1].ev \in {"return", "raise"}
           /\ log[i].op # "fetch" => log[i + 1].size = log[i].size
    /\ \A k \in 1..NSizes :
           \A i \in AtSize("export", "call", MODEL_SIZES[k]) :
               \E j \in AtSize("train", "return", MODEL_SIZES[k]) : j < i
    /\ \A k \in 2..NSizes :
           \A i \in AtSize("train", "call", MODEL_SIZES[k]) :
               \E j \in 1..(i - 1) :
                   /\ log[j].op = "export"
                   /\ log[j].ev \in {"return", "raise"}
                   /\ log[j].size = MODEL_SIZES[k - 1]

C5_Witness ==
    /\ TrainedSizes = MODEL_SIZES
    /\ pc = "exporting"
    /\ AtSize("export", "raise", "s") # {}
    /\ AtSize("export", "return", "m") # {}

(* C6: when the export of a variant raises after its train returned, the   *)
(* error does not leave main, the variant is reported as failed with the   *)
(* error's message and never as complete, and the loop goes on to the next *)
(* variant: the trainer is entered for it (its model load is called, and   *)
(* model.train is called as soon as that load returns).                    *)
C6_ExportFailureContinues ==
    \A k \in 1..NSizes :
        \A i \in AtSize("export", "raise", MODEL_SIZES[k]) :
            /\ AtSize("train", "return", MODEL_SIZES[k]) # {}
            /\ uncaught # log[i].err \/ i < Len(log)
            /\ \E n \in 1..Len(out) :
                   out[n] = [kind |-> "export_failed", size |-> MODEL_SIZES[k],
                             msg |-> log[i].err.msg]
            /\ \A n \in 1..Len(out) :
                   out[n].kind = "export_complete" => out[n].size # MODEL_SIZES[k]
            /\ k < NSizes =>
                   \/ AtSize("load", "call", MODEL_SIZES[k + 1]) # {}
                   \/ pc = "loop" /\ idx = k + 1 /\ i = Len(log)
            /\ (k < NSizes /\ Ended) =>
                   AtSize("load", "call", MODEL_SIZES[k + 1]) # {}
            /\ (k < NSizes /\ AtSize("load", "return", MODEL_SIZES[k + 1]) # {}) =>
                   AtSize("train", "call", MODEL_SIZES[k + 1]) # {}
            /\ pc = "crashed" => i < Len(log)

C6_Witness ==
    /\ AtSize("export", "raise", "s") # {}
    /\ AtSize("train", "call", "m") # {}
    /\ pc = "training"
    /\ idx = 2

(* C7: when the train of a variant raises (in loading the model or in      *)
(* model.train), the error leaves main: export is not called for that      *)
(* variant, nothing is called for a later variant, and outcomes are        *)
(* reported for exactly the variants before it.                            *)
C7_TrainFailureAborts ==
    \A k \in 1..NSizes :
        \A i \in AtSize("train", "raise", MODEL_SIZES[k])
                   \cup AtSize("load", "raise", MODEL_SIZES[k]) :
            /\ i = Len(log)
            /\ pc = "crashed"
            /\ uncaught = log[i].err
            /\ AtSize("export", "call", MODEL_SIZES[k]) = {}
            /\ \A j \in 1..Len(log) :
                   log[j].op # "fetch" => log[j].size \in {MODEL_SIZES[n] : n \in 1..k}
            /\ OutcomeSizes = Prefix(k - 1)
            /\ ~Emitted("all_processed")

C7_Witness ==
    /\ AtSize("train", "raise", "m") # {}
    /\ pc = "crashed"
    /\ Len(Outcomes) = 1

(* C8 as stated: when a run whose dataset resolved ends, every variant of  *)
(* MODEL_SIZES has exactly one reported outcome, in declaration order.     *)
C8_Original ==
    (Ended /\ Resolved) => OutcomeSizes = MODEL_SIZES

(* C8 amended: the reported outcomes are always one per processed variant, *)
(* in declaration order; a run that ends by returning from the loop has    *)
(* one for every variant of MODEL_SIZES, and a run that a train error ends *)
(* has one for exactly the variants before the failing one.                *)
C8_OutcomesPerProcessedVariant ==
    /\ IsPrefix(OutcomeSizes)
    /\ Len(Outcomes) = Cardinality(At("export", "return") \cup At("export", "raise"))
    /\ (pc = "done" /\ Resolved) => OutcomeSizes = MODEL_SIZES
    /\ pc = "crashed" => OutcomeSizes = Prefix(idx - 1)
    /\ \A n \in 1..Len(Outcomes) :
           Outcomes[n].kind = "export_failed"
               <=> AtSize("export", "raise", Outcomes[n].size) # {}

C8_Witness ==
    /\ pc = "done"
    /\ Len(Outcomes) = NSizes
    /\ Outcomes[1].kind = "export_failed"
    /\ Outcomes[2].kind = "export_complete"
    /\ Outcomes[3].kind = "export_failed"

(* C9: nothing is retried: the fetch is called at most once, and for each  *)
(* variant the model load, train and export are called at most once each.  *)
C9_NoRetry ==
    /\ Cardinality(At("fetch", "call")) <= 1
    /\ \A k \in 1..NSizes :
           \A op \in {"load", "train", "export"} :
               Cardinality(AtSize(op, "call", MODEL_SIZES[k])) <= 1
    /\ Cardinality(Calls) <= 1 + 3 * NSizes

C9_Witness ==
    /\ At("fetch", "return") # {}
    /\ \A k \in 1..NSizes : AtSize("export", "raise", MODEL_SIZES[k]) # {}
    /\ pc = "done"

(* C10: the final "all models processed" message is printed, once and      *)
(* last, in exactly the runs whose dataset resolved and whose train        *)
(* returned for every variant, failed exports or not; a run that has not   *)
(* ended, or that a resolution failure or a train error ended, has not     *)
(* printed it.                                                             *)
C10_FinalMessage ==
    /\ Emitted("all_processed") <=>
           /\ pc = "done"
           /\ Resolved
           /\ \A k \in 1..NSizes : AtSize("train", "return", MODEL_SIZES[k]) # {}
    /\ \A n \in 1..Len(out) : out[n].kind = "all_processed" => n = Len(out)
    /\ (pc = "crashed" \/ ~Resolved) => ~Emitted("all_processed")

C10_Witness ==
    /\ Emitted("all_processed")
    /\ Cardinality(At("export", "raise")) = 2
    /\ At("fetch", "call") = {}

====
